---------------------------- MODULE Spec2Model ----------------------------
(***************************************************************************)
(* Build/test orchestration drivers of swift-package-manager:              *)
(*                                                                         *)
(*   - swift-tools-support-core/Utilities/build-script-helper.py           *)
(*     (build_with_cmake: configure when needed, then build), and          *)
(*   - Examples/swift-syntax/build-script.py                               *)
(*     (generate gyb files, build, optionally run lit tests and XCTests),  *)
(*                                                                         *)
(* the process-running wrappers of these two scripts and of                *)
(* Utilities/helpers.py, and the change_directory context manager of       *)
(* Utilities/helpers.py.                                                   *)
(*                                                                         *)
(* Both drivers are sequential programs that block on external processes.  *)
(* A step of the model is the code a driver runs between two process       *)
(* boundaries: it ends when a child process is spawned, and the next step  *)
(* begins when that child exits with an exit code the environment chooses. *)
(* Strings are sequences of one-character strings, so that Python's        *)
(* substring test is modelled as it computes.                              *)
(***************************************************************************)
EXTENDS Integers, Sequences, FiniteSets, TLC

\* ------------------------------------------------------------------ bounds

\* Longest toolchain path, in characters after the leading "/".
MaxPathLen == 2
\* Child processes exit with a code in 0..MaxExitCode.
MaxExitCode == 2
\* Most .gyb files in Sources/SwiftSyntax.
MaxUnits == 2
\* Most wrapper calls a caller makes one after the other.
MaxCalls == 2

\* How deep change_directory contexts are nested, and how many are entered.
MaxDepth == 2
MaxEntries == 3

ExitCodes == 0 .. MaxExitCode

\* The outcome of a child process that could not be started: Popen raises
\* OSError and there is no exit code.
NotSpawned == -2

\* What spawning a child process and waiting for it can come to.
ChildOutcomes == ExitCodes \cup {NotSpawned}

\* ----------------------------------------------------------------- strings

PathChars == {"a"}

RECURSIVE StringsUpTo(_)
\* All character sequences over PathChars of length 0..n.
StringsUpTo(n) ==
    IF n = 0 THEN {<<>>}
    ELSE LET shorter == StringsUpTo(n - 1)
         IN  shorter \cup {Append(s, c) : s \in shorter, c \in PathChars}

\* Absolute toolchain paths, as get_swiftc_path resolves them (os.path.abspath,
\* os.path.realpath, `which`): "/a", "/aa", ...
Paths == {<<"/">> \o s : s \in StringsUpTo(MaxPathLen) \ {<<>>}}

\* Python's `needle in hay` on strings.
IsSubstring(needle, hay) ==
    \E i \in 0 .. (Len(hay) - Len(needle)) :
        SubSeq(hay, i + 1, i + Len(needle)) = needle


\* =========================================================================
\* build-script-helper.py: parse_build_args (the tool path lookups) and
\* build_with_cmake
\* =========================================================================

VARIABLES
    build_dir,          \* what is at the path build_dir, one of BuildDirStates
    cache,              \* content of build_dir/CMakeCache.txt, or NoFile
    args,               \* the parsed arguments of the current run
    bwc_pc,             \* where the driver is: idle, lookup, cmake, ninja,
                        \* returned, exited
    bwc_lookups,        \* child processes parse_build_args spawned, in order
    bwc_lookup_todo,    \* the lookups parse_build_args has still to make
    bwc_log,            \* child processes build_with_cmake spawned, in order
    bwc_start,          \* the filesystem as the current run found it
    bwc_prev,           \* <<summary of the previous run>>, or <<>>
    bwc_stdout,         \* lines the current run printed on standard output
    bwc_stderr,         \* lines the current run wrote to the error stream
    bwc_exit            \* exit status of the driver process, -1 while it runs

cmakeVars ==
    <<build_dir, cache, args, bwc_pc, bwc_lookups, bwc_lookup_todo, bwc_log, bwc_start, bwc_prev,
      bwc_stdout, bwc_stderr, bwc_exit>>

\* The state of the swift-syntax driver (Examples/swift-syntax/build-script.py).
VARIABLES
    gyb_src,            \* content of each <stem>.gyb file in Sources/SwiftSyntax
    temp_file,          \* content of the temp file the generator wrote last
    generated_files,    \* content of each file of Sources/SwiftSyntax/gyb_generated
    written,            \* generated files written (mtime set) by the current run
    test,               \* args.test of the current run
    ss_pc,              \* where the driver is: idle, the child it waits for, exited
    ss_log,             \* child processes spawned by the current run, in order
    todo,               \* .gyb entries of os.listdir still to process, current first
    exit_status,        \* exit status of the driver process, -1 while it runs
    tests_result,       \* what run_tests returned: none, True, False, raised
    ss_start,           \* the sources and generated files as the current run found them
    ss_prev,            \* <<summary of the previous run>>, or <<>>
    swiftc_exec,        \* args.swiftc_exec of the current run
    environ_path,       \* os.environ['PATH'] of the driver process, as a list of directories
    child_path,         \* PATH of the environment the XCTest child was given
    ss_stderr           \* lines written to the driver process's error stream

\* What the actions of the code-generation, build and lit steps leave alone.
testEnvVars == <<swiftc_exec, environ_path, child_path>>

syntaxVars ==
    <<gyb_src, temp_file, generated_files, written, test, ss_pc, ss_log, todo,
      exit_status, tests_result, ss_start, ss_prev, swiftc_exec, environ_path,
      child_path, ss_stderr>>

\* The state of a caller of the process-running wrappers of the three scripts.
VARIABLES
    w_pc,               \* ready, waiting (for the child), raised, exited
    w_log               \* the wrapper calls made so far, in order

wrapperVars == <<w_pc, w_log>>

\* The state of a process that uses change_directory.
VARIABLES
    cd_cwd,             \* the process's current working directory
    cd_stack,           \* the change_directory generators suspended at yield
    cd_pc,              \* body (code inside or outside a with block), raising
    cd_entered,         \* how many contexts were entered
    cd_log              \* the contexts that exited, in order of exit

chdirVars == <<cd_cwd, cd_stack, cd_pc, cd_entered, cd_log>>

vars == <<cmakeVars, syntaxVars, wrapperVars, chdirVars>>

\* What can be at the path build_dir: nothing (and the path can be made), a
\* directory, something that is not a directory (a regular file, a dangling
\* or looping symbolic link), or nothing where os.makedirs cannot make a
\* directory, for whatever reason mkdir(2) fails.
BuildDirStates == {"absent", "directory", "other", "unreachable"}

\* os.path.isdir(build_dir)
build_dir_exists == build_dir = "directory"

\* The traceback the interpreter prints for an exception nothing catches.
Traceback(exception) ==
    <<[by |-> "interpreter", text |-> exception, cmd |-> "none"]>>

\* os.path.isfile(cache_path) is False.
NoFile == <<"<absent>">>

\* What the configure tool leaves in CMakeCache.txt for
\* -DCMAKE_Swift_COMPILER:=<swiftc_path>: an entry line holding the path.
CacheRecord(swiftc_path) == <<"=">> \o swiftc_path \o <<"\n">>

\* Cache marker contents the driver may find: none, an empty file, or the
\* record of a toolchain path.
CacheStates == {NoFile, <<>>} \cup {CacheRecord(p) : p \in Paths}

NoArgs == [reconfigure |-> FALSE, swiftc_path |-> <<>>, verbose |-> FALSE]

\* print(' '.join(cmd)): the command line of tool.
CmdLine(tool) == [text |-> "cmd", cmd |-> tool]

\* error(str(e)): "--- <script>: error: <str(e)>", printed for the call of
\* tool; str(e) names the command (CalledProcessError), or the program or
\* the working directory that was not found (OSError).
ErrorLine(tool) == [text |-> "error", cmd |-> tool]

\* What call(cmd, verbose) prints before it spawns the child.
CallEcho(tool, verbose) == IF verbose THEN <<CmdLine(tool)>> ELSE <<>>

\* What call(cmd, verbose) prints when check_call raises: the command line
\* unless it was printed already, then the line of error().
CallReport(tool, verbose) ==
    (IF verbose THEN <<>> ELSE <<CmdLine(tool)>>) \o <<ErrorLine(tool)>>

\* A child process in bwc_log: code is -1 until the process has exited;
\* cwd_exists is whether its working directory existed when it was spawned.
Spawned(tool, cwd_exists) == [tool |-> tool, code |-> -1, cwd_exists |-> cwd_exists]

\* The last child process of log has exited with code.
Exited(log, code) == [log EXCEPT ![Len(log)].code = code]

\* Mutation: the `not` before the substring test is lost.
NeedsConfigureInverted(reconfigure, cache_content, swiftc_path) ==
    \/ reconfigure
    \/ cache_content = NoFile
    \/ IsSubstring(swiftc_path, cache_content)

\* Mutation: --reconfigure is parsed but never consulted.
NeedsConfigureNoForce(reconfigure, cache_content, swiftc_path) ==
    \/ cache_content = NoFile
    \/ ~IsSubstring(swiftc_path, cache_content)

\* Mutation: the whole cache file is compared with the path.
NeedsConfigureExact(reconfigure, cache_content, swiftc_path) ==
    \/ reconfigure
    \/ cache_content = NoFile
    \/ swiftc_path # cache_content

\* args.reconfigure or not os.path.isfile(cache_path)
\*     or not args.swiftc_path in open(cache_path).read()
NeedsConfigure(reconfigure, cache_content, swiftc_path) ==
    \/ reconfigure
    \/ cache_content = NoFile
    \/ ~IsSubstring(swiftc_path, cache_content)

\* errno.EEXIST.
EEXIST == 17

\* The largest errno a system call returns (MAX_ERRNO of the kernel).
MAX_ERRNO == 4095

\* The errno values an OSError of os.makedirs can carry: whatever mkdir(2)
\* sets. Which of them a path gets is the file system's matter (ENOTDIR
\* under a regular file, ENOENT under a dangling symbolic link, ELOOP,
\* ENAMETOOLONG, EACCES, EPERM, EROFS, EAGAIN from a cgroup2 directory that
\* allows no descendants, ...), so none is left out.
Errnos == 1 .. MAX_ERRNO

\* os.makedirs returned without an OSError.
NoErrno == 0

\* os.makedirs(path): NoErrno when it makes the directory, else the errno of
\* the OSError it raises; the set of what it can come to for what is at
\* the path. EEXIST is raised for anything at the path, directory or not;
\* where no directory can be made the errno is any other one.
MakedirsErrnos(at_path) ==
    CASE at_path = "absent" -> {NoErrno}
      [] at_path \in {"directory", "other"} -> {EEXIST}
      [] at_path = "unreachable" -> Errnos \ {EEXIST}

\* mkdir_p(path) raises: `if e.errno != errno.EEXIST: raise`.
MkdirPRaises(at_path) ==
    \E errno \in MakedirsErrnos(at_path) : errno \notin {NoErrno, EEXIST}

\* Mutation: the directory is not made.
MkdirPSkipped(at_path) == at_path

\* What is at the path once mkdir_p(path) has returned or raised: the
\* directory os.makedirs made, or what was there before.
MkdirP(at_path) ==
    IF \A errno \in MakedirsErrnos(at_path) : errno = NoErrno
    THEN "directory"
    ELSE at_path

\* The summary of the current run, kept when the next run starts.
RunSummary == [args |-> args, start |-> bwc_start, log |-> bwc_log, pc |-> bwc_pc]

\* build_with_cmake(a, ...) up to its first child process, entered after the
\* run has printed `out`: the configure decision; when configure is needed
\* the command line is printed under --verbose, mkdir_p(build_dir) makes
\* the directory or raises, which nothing catches, and cmake is spawned in
\* it; otherwise ninja is spawned.
BuildWithCmake(a, out) ==
    IF ~NeedsConfigure(a.reconfigure, cache, a.swiftc_path)
    THEN /\ bwc_log' = <<Spawned("ninja", build_dir_exists)>>
         /\ bwc_stdout' = out \o CallEcho("ninja", a.verbose)
         /\ bwc_pc' = "ninja"
         /\ bwc_stderr' = <<>>
         /\ bwc_exit' = -1
         /\ UNCHANGED build_dir
    ELSE IF MkdirPRaises(build_dir)
    THEN /\ build_dir' = MkdirP(build_dir)
         /\ bwc_log' = <<>>
         /\ bwc_stdout' = out \o CallEcho("cmake", a.verbose)
         /\ bwc_pc' = "exited"
         /\ bwc_stderr' = Traceback("OSError")
         /\ bwc_exit' = 1
    ELSE /\ build_dir' = MkdirP(build_dir)
         /\ bwc_log' = <<Spawned("cmake", build_dir_exists')>>
         /\ bwc_stdout' = out \o CallEcho("cmake", a.verbose) \o CallEcho("cmake", TRUE)
         /\ bwc_pc' = "cmake"
         /\ bwc_stderr' = <<>>
         /\ bwc_exit' = -1

\* build_tsc(args) with the tool paths resolved: build_with_cmake is entered
\* with nothing printed yet.
BuildTsc(reconfigure, swiftc_path, verbose) ==
    /\ bwc_pc \in {"idle", "returned", "exited"}
    /\ bwc_prev' = IF bwc_pc = "idle" THEN <<>> ELSE <<RunSummary>>
    /\ args' = [reconfigure |-> reconfigure, swiftc_path |-> swiftc_path,
                verbose |-> verbose]
    /\ bwc_start' = [dir |-> build_dir, cache |-> cache]
    /\ BuildWithCmake(args', <<>>)
    /\ bwc_lookups' = <<>>
    /\ bwc_lookup_todo' = <<>>
    /\ UNCHANGED <<cache, syntaxVars, wrapperVars, chdirVars>>

\* The tools parse_build_args resolves a path for, in its order.
ResolvedTools == <<"swiftc", "cmake", "ninja">>

\* The command a lookup spawns through call_output: `xcrun` on Darwin,
\* `which` elsewhere; "sdk" is parse_global_args' lookup of args.sysroot.
LookupCmd(what, darwin) ==
    CASE what = "sdk" -> "xcrun --show-sdk-path"
      [] what = "swiftc" -> IF darwin THEN "xcrun --find swiftc" ELSE "which swiftc"
      [] what = "cmake" -> IF darwin THEN "xcrun --find cmake" ELSE "which cmake"
      [] what = "ninja" -> IF darwin THEN "xcrun --find ninja" ELSE "which ninja"

\* The command platform.system() spawns under Python 2.7: platform.uname()
\* asks _syscmd_uname('-p') for the processor, which runs `uname -p` through
\* os.popen and reads its output. Python 3 spawns nothing there.
UnameCmd == "uname -p"

\* The child processes of parse_build_args, in order: `uname -p` for
\* `platform.system() == 'Darwin'` when the interpreter is Python 2.7, the
\* SDK path on Darwin (parse_global_args), then get_swiftc_path,
\* get_cmake_path and get_ninja_path for every tool whose path is not in
\* `given` (named by its option or, for swiftc, by SWIFT_EXEC).
Lookups(given, darwin, python2) ==
    LET missing == SelectSeq(ResolvedTools, LAMBDA t : t \notin given)
        whats == (IF darwin THEN <<"sdk">> ELSE <<>>) \o missing
    IN  (IF python2 THEN <<UnameCmd>> ELSE <<>>) \o
        [i \in DOMAIN whats |-> LookupCmd(whats[i], darwin)]

\* What is printed before a child of parse_build_args is spawned:
\* call_output prints the command when verbose, os.popen prints nothing.
LookupEcho(cmd, verbose) ==
    IF cmd = UnameCmd THEN <<>> ELSE CallEcho(cmd, verbose)

\* A child process in bwc_lookups.
LookupChild(cmd) == [tool |-> cmd, code |-> -1]

\* One run of the driver up to its first child process: main, build and
\* parse_build_args, which spawns its first child; when there is none
\* (Python 3, not Darwin, every path given) build_tsc is entered at once.
\* swiftc_path is the path get_swiftc_path comes to, given or looked up.
Build(reconfigure, swiftc_path, verbose, given, darwin, python2) ==
    /\ bwc_pc \in {"idle", "returned", "exited"}
    /\ bwc_prev' = IF bwc_pc = "idle" THEN <<>> ELSE <<RunSummary>>
    /\ args' = [reconfigure |-> reconfigure, swiftc_path |-> swiftc_path,
                verbose |-> verbose]
    /\ bwc_start' = [dir |-> build_dir, cache |-> cache]
    /\ LET queue == Lookups(given, darwin, python2)
       IN  IF queue = <<>>
           THEN /\ BuildWithCmake(args', <<>>)
                /\ bwc_lookups' = <<>>
                /\ bwc_lookup_todo' = <<>>
           ELSE /\ bwc_lookups' = <<LookupChild(Head(queue))>>
                /\ bwc_lookup_todo' = Tail(queue)
                /\ bwc_stdout' = LookupEcho(Head(queue), verbose)
                /\ bwc_pc' = "lookup"
                /\ bwc_log' = <<>>
                /\ bwc_stderr' = <<>>
                /\ bwc_exit' = -1
                /\ UNCHANGED build_dir
    /\ UNCHANGED <<cache, syntaxVars, wrapperVars, chdirVars>>

\* A child of parse_build_args exits, or could not be started. call_output
\* turns every exception of check_output into error(), which prints on
\* standard output and raises SystemExit(1); after a zero exit
\* parse_build_args goes on to the next lookup, and after the last one
\* build_tsc is entered. platform goes on whatever `uname -p` came to: it
\* catches os.error and ignores the exit status.
LookupExit(code) ==
    /\ bwc_pc = "lookup"
    /\ IF code # 0 /\ bwc_lookups[Len(bwc_lookups)].tool # UnameCmd
       THEN /\ bwc_lookups' = Exited(bwc_lookups, code)
            /\ bwc_stdout' = bwc_stdout \o
                   CallReport(bwc_lookups[Len(bwc_lookups)].tool, args.verbose)
            /\ bwc_pc' = "exited"
            /\ bwc_exit' = 1
            /\ UNCHANGED <<build_dir, bwc_lookup_todo, bwc_log, bwc_stderr>>
       ELSE IF bwc_lookup_todo # <<>>
       THEN /\ bwc_lookups' = Append(Exited(bwc_lookups, code),
                                     LookupChild(Head(bwc_lookup_todo)))
            /\ bwc_lookup_todo' = Tail(bwc_lookup_todo)
            /\ bwc_stdout' = bwc_stdout \o
                   LookupEcho(Head(bwc_lookup_todo), args.verbose)
            /\ UNCHANGED <<build_dir, bwc_pc, bwc_log, bwc_stderr, bwc_exit>>
       ELSE /\ bwc_lookups' = Exited(bwc_lookups, code)
            /\ BuildWithCmake(args, bwc_stdout)
            /\ UNCHANGED bwc_lookup_todo
    /\ UNCHANGED <<cache, args, bwc_start, bwc_prev, syntaxVars, wrapperVars,
                   chdirVars>>

\* Mutation: the build is placed in the branch that skips configure.
CmakeExitNoBuild(code, wrote) ==
    /\ bwc_pc = "cmake"
    /\ ~bwc_log[Len(bwc_log)].cwd_exists => code = NotSpawned
    /\ wrote = (code = 0)
    /\ cache' = IF wrote THEN CacheRecord(args.swiftc_path) ELSE cache
    /\ bwc_log' = Exited(bwc_log, code)
    /\ bwc_pc' = IF code = 0 THEN "returned" ELSE "exited"
    /\ bwc_exit' = IF code = 0 THEN 0 ELSE 1
    /\ bwc_stdout' = IF code = 0 THEN bwc_stdout
                     ELSE bwc_stdout \o CallReport("cmake", TRUE)
    /\ UNCHANGED <<build_dir, bwc_lookups, bwc_lookup_todo, args, bwc_start, bwc_prev, bwc_stderr,
                   syntaxVars, wrapperVars, chdirVars>>

\* Mutation: call() reports the failure of cmake and the driver goes on.
CmakeExitIgnoringFailure(code, wrote) ==
    /\ bwc_pc = "cmake"
    /\ ~bwc_log[Len(bwc_log)].cwd_exists => code = NotSpawned
    /\ code = 0 => wrote
    /\ code = NotSpawned => ~wrote
    /\ cache' = IF wrote THEN CacheRecord(args.swiftc_path) ELSE cache
    /\ bwc_log' = Append(Exited(bwc_log, code), Spawned("ninja", build_dir_exists))
    /\ bwc_stdout' = bwc_stdout \o CallEcho("ninja", args.verbose)
    /\ bwc_pc' = "ninja"
    /\ UNCHANGED <<build_dir, bwc_lookups, bwc_lookup_todo, args, bwc_start, bwc_prev, bwc_stderr,
                   bwc_exit, syntaxVars, wrapperVars, chdirVars>>

\* cmake exits, or could not be started. call() turns every exception of
\* check_call (a non-zero exit, a program not found) into error(), which
\* prints on standard output and raises SystemExit(1); after a zero exit the
\* driver spawns ninja. The configure tool writes the cache marker when it
\* succeeds, may or may not have written it when it fails, and has not
\* when it never ran.
CmakeExit(code, wrote) ==
    /\ bwc_pc = "cmake"
    /\ ~bwc_log[Len(bwc_log)].cwd_exists => code = NotSpawned
    /\ code = 0 => wrote
    /\ code = NotSpawned => ~wrote
    /\ cache' = IF wrote THEN CacheRecord(args.swiftc_path) ELSE cache
    /\ IF code = 0
       THEN /\ bwc_log' = Append(Exited(bwc_log, code), Spawned("ninja", build_dir_exists))
            /\ bwc_stdout' = bwc_stdout \o CallEcho("ninja", args.verbose)
            /\ bwc_pc' = "ninja"
            /\ UNCHANGED bwc_exit
       ELSE /\ bwc_log' = Exited(bwc_log, code)
            /\ bwc_stdout' = bwc_stdout \o CallReport("cmake", TRUE)
            /\ bwc_pc' = "exited"
            /\ bwc_exit' = 1
    /\ UNCHANGED <<build_dir, bwc_lookups, bwc_lookup_todo, args, bwc_start, bwc_prev, bwc_stderr,
                   syntaxVars, wrapperVars, chdirVars>>

\* ninja exits, or could not be started: after a zero exit build_with_cmake,
\* build_tsc and main return and the process ends with status 0; otherwise
\* call() reports on standard output and error() raises SystemExit(1).
NinjaExit(code) ==
    /\ bwc_pc = "ninja"
    /\ ~bwc_log[Len(bwc_log)].cwd_exists => code = NotSpawned
    /\ bwc_log' = Exited(bwc_log, code)
    /\ bwc_pc' = IF code = 0 THEN "returned" ELSE "exited"
    /\ bwc_exit' = IF code = 0 THEN 0 ELSE 1
    /\ bwc_stdout' = IF code = 0 THEN bwc_stdout
                     ELSE bwc_stdout \o CallReport("ninja", args.verbose)
    /\ UNCHANGED <<build_dir, bwc_lookups, bwc_lookup_todo, cache, args, bwc_start, bwc_prev,
                   bwc_stderr, syntaxVars, wrapperVars, chdirVars>>

\* The build directory is present with any cache marker state, or there is
\* no directory at its path.
InitCMake ==
    /\ build_dir \in BuildDirStates
    /\ cache \in CacheStates
    /\ ~build_dir_exists => cache = NoFile
    /\ args = NoArgs
    /\ bwc_pc = "idle"
    /\ bwc_lookups = <<>>
    /\ bwc_lookup_todo = <<>>
    /\ bwc_log = <<>>
    /\ bwc_start = [dir |-> build_dir, cache |-> cache]
    /\ bwc_prev = <<>>
    /\ bwc_stdout = <<>>
    /\ bwc_stderr = <<>>
    /\ bwc_exit = -1

NextCMake ==
    \/ \E reconfigure \in BOOLEAN, swiftc_path \in Paths, verbose \in BOOLEAN :
           BuildTsc(reconfigure, swiftc_path, verbose)
    \/ \E code \in ChildOutcomes, wrote \in BOOLEAN : CmakeExit(code, wrote)
    \/ \E code \in ChildOutcomes : NinjaExit(code)


\* =========================================================================
\* Examples/swift-syntax/build-script.py: main
\* =========================================================================


\* Stems of the .gyb files a source directory may hold.
Stems == 1 .. MaxUnits

\* Contents of a .gyb file: two templates, and the second one with only a
\* template comment changed.
Inputs == {"v1", "v2", "v2c"}

\* No file of that name.
Missing == "missing"

\* The generator: a deterministic function of the input file's content.
\* Inputs that differ only in a template comment expand to the same output.
Gyb(input) == IF input = "v1" THEN "out1" ELSE "out2"

Outputs == {Gyb(i) : i \in Inputs}

\* An entry of os.listdir(swiftsyntax_sources_dir).
GybEntry(stem) == [stem |-> stem, suffix |-> ".gyb"]

\* Sources/SwiftSyntax/gyb_generated is itself an entry of the listed directory.
GeneratedDirEntry == [stem |-> 0, suffix |-> "_generated"]

\* gyb_file.endswith('.gyb')
EndsWithGyb(entry) == entry.suffix = ".gyb"

\* output_file_name = gyb_file[:-4]
OutputFileName(entry) == entry.stem

\* The entries of the source directory.
DirEntries == {GybEntry(k) : k \in DOMAIN gyb_src} \cup {GeneratedDirEntry}

RECURSIVE Listings(_)
\* The orders in which os.listdir may return the entries S of a directory.
Listings(S) ==
    IF S = {} THEN {<<>>}
    ELSE UNION {{<<e>> \o rest : rest \in Listings(S \ {e})} : e \in S}

\* The output names the loop of generate_gyb_files handles, in order:
\* entries without the .gyb suffix are skipped.
UnitsOf(listing) ==
    LET gybs == SelectSeq(listing, EndsWithGyb)
    IN  [i \in DOMAIN gybs |-> OutputFileName(gybs[i])]

\* Mutation: the destination is overwritten whenever it exists.
SyncDecisionAlways(candidate, destination) == "differs"

\* Mutation: the destination is never written (rsync --dry-run).
SyncDecisionNever(candidate, destination) == "identical"

\* rsync --checksum <candidate> <destination>: the destination is written
\* when it is missing or its size and checksum differ from the candidate's
\* (the checksum taken as collision-free), and is left untouched otherwise.
SyncDecision(candidate, destination) ==
    IF destination = Missing \/ destination # candidate
    THEN "differs"
    ELSE "identical"

\* Mutation: only exit code 1 counts as a failure.
CallSucceededUnlessOne(code) == code # 1

\* call(...) == 0
CallSucceeded(code) == code = 0

\* A child process in ss_log; unit is the output name it works on, 0 if none.
Child(tool, unit) == [tool |-> tool, unit |-> unit, code |-> -1]

\* Mutation: the build never asks for the test helper.
BuildProductsWithoutHelper(build_test_util) == {"SwiftSyntax"}

\* The --product arguments build_swiftsyntax gives to `swift build`:
\* SwiftSyntax always, lit-test-helper when build_test_util is set.
BuildProducts(build_test_util) ==
    {"SwiftSyntax"} \cup (IF build_test_util THEN {"lit-test-helper"} ELSE {})

\* The build child in ss_log, with the products its command line names;
\* main passes args.test as build_test_util.
BuildChild(build_test_util) ==
    [tool |-> "build", unit |-> 0, code |-> -1,
     products |-> BuildProducts(build_test_util)]

TestTools == {"show-bin-path", "lit", "xctest"}

\* A file-system path is the sequence of its components, "/" first when it
\* is absolute. The directory the driver is started in:
Cwd == <<"/", "work">>

\* None where a path is expected; it is no path.
NonePath == <<"<None>">>

\* The empty string as a path.
EmptyPath == <<>>

\* The default of --swiftc-exec.
DefaultSwiftcExec == <<"swiftc">>

\* Values of --swiftc-exec: not given, the path of a toolchain's compiler,
\* or the empty string.
SwiftcExecArgs == {DefaultSwiftcExec, <<"/", "tc", "bin", "swiftc">>, EmptyPath}

\* PATH as the driver process inherits it.
InheritedPath == << <<"/", "usr", "bin">>, <<"/", "bin">> >>

\* PATH of a child that has not been spawned.
NotPassed == << <<"<not passed>">> >>

RECURSIVE NormPath(_, _)
\* os.path.normpath on an absolute path: ".." drops the component before
\* it, and stays at the root.
NormPath(done, rest) ==
    IF rest = <<>> THEN done
    ELSE NormPath(IF Head(rest) = ".."
                  THEN (IF Len(done) > 1 THEN SubSeq(done, 1, Len(done) - 1) ELSE done)
                  ELSE Append(done, Head(rest)),
                  Tail(rest))

\* realpath(path): None for None, else os.path.realpath (no symbolic links):
\* a relative path, the empty string among them, is taken from the working
\* directory.
Realpath(path) ==
    IF path = NonePath THEN NonePath
    ELSE NormPath(<<>>, IF path # EmptyPath /\ path[1] = "/" THEN path
                        ELSE Cwd \o path)

\* run_xctests: subenv['PATH'] after `if swiftc_exec: subenv['PATH'] =
\* realpath(swiftc_exec + '/..') + ':' + subenv['PATH']`; None and the
\* empty string are the values Python takes as false.
XctestPath(swiftc, path) ==
    IF swiftc \notin {NonePath, EmptyPath}
    THEN <<Realpath(Append(swiftc, ".."))>> \o path
    ELSE path

\* printerr(message): a line of the driver on the error stream that names
\* no command.
ErrLine(message) == [by |-> "driver", text |-> message, cmd |-> "none"]

\* Mutation: the handlers print the message only, not the command.
FailureReportWithoutCommand(message, tool) == <<ErrLine(message)>>

\* The handlers of CalledProcessError in main: the message, 'Executing: '
\* with e.cmd, and e.output (None unless check_output captured it).
FailureReport(message, tool) ==
    << ErrLine(message),
       [by |-> "driver", text |-> "Executing", cmd |-> tool],
       ErrLine(IF tool = "show-bin-path" THEN "<captured output>" ELSE "None") >>

\* The error stream after check_call or check_output raised for tool: OSError
\* when the program could not be started, which main does not catch, and
\* CalledProcessError for a non-zero exit, which it reports.
RaisedReport(code, message, tool) ==
    IF code = NotSpawned THEN Traceback("OSError")
    ELSE FailureReport(message, tool)

\* The driver process ends with status (sys.exit, an uncaught exception, or
\* main returning).
Exit(status) ==
    /\ ss_pc' = "exited"
    /\ exit_status' = status

\* main up to the first child process: parse the arguments, enter
\* generate_gyb_files, check_gyb_exec, and check_rsync's `rsync --version`.
\* The summary of the previous run is completed with the .gyb files edited
\* since that run read them; what it has for a run on unchanged sources is
\* dropped when there are any.
SyntaxMain(test_flag, gyb_exists, swiftc_arg) ==
    /\ ss_pc = "idle"
    /\ swiftc_exec' = swiftc_arg
    /\ ss_prev' = IF ss_prev = <<>> THEN <<>>
                  ELSE LET edited == {k \in DOMAIN gyb_src : gyb_src[k] # ss_start.src[k]}
                       IN  <<[ss_prev[1] EXCEPT
                                !.changed = edited,
                                !.rerun = IF edited = {} THEN @ ELSE <<>>]>>
    /\ ss_start' = [src |-> gyb_src, gen |-> generated_files]
    /\ test' = test_flag
    /\ IF gyb_exists
       THEN /\ ss_log' = <<Child("rsync-version", 0)>>
            /\ ss_pc' = "rsync-version"
            /\ UNCHANGED <<exit_status, ss_stderr>>
       ELSE /\ ss_log' = <<>>
            /\ ss_stderr' = <<ErrLine("Error: Could not find gyb.")>>
            /\ Exit(1)
    /\ UNCHANGED <<gyb_src, temp_file, generated_files, written, todo,
                   tests_result, environ_path, child_path, cmakeVars, wrapperVars, chdirVars>>

\* What is kept of a run that has ended: whether its code-generation phase
\* completed (the build was started) and, for a run that follows on
\* unchanged sources, the output names whose sync exited zero and whether
\* the generator ran and exited zero every time it did.
SyntaxRunSummary ==
    [generated |-> \E i \in DOMAIN ss_log : ss_log[i].tool = "build",
     changed |-> {},
     rerun |-> <<[synced |-> {ss_log[i].unit : i \in {j \in DOMAIN ss_log :
                                 ss_log[j].tool = "rsync" /\ ss_log[j].code = 0}},
                  generator_ok |->
                      /\ \E i \in DOMAIN ss_log : ss_log[i].tool = "gyb"
                      /\ \A i \in DOMAIN ss_log :
                            ss_log[i].tool = "gyb" => ss_log[i].code = 0]>>]

\* The driver process is gone; the files it left stay.
ProcessEnds ==
    /\ ss_pc = "exited"
    /\ ss_pc' = "idle"
    /\ ss_prev' = <<SyntaxRunSummary>>
    /\ ss_start' = [ss_start EXCEPT !.gen = generated_files]
    /\ ss_log' = <<>>
    /\ todo' = <<>>
    /\ written' = {}
    /\ test' = FALSE
    /\ exit_status' = -1
    /\ tests_result' = "none"
    /\ swiftc_exec' = DefaultSwiftcExec
    /\ environ_path' = InheritedPath
    /\ child_path' = NotPassed
    /\ ss_stderr' = <<>>
    /\ UNCHANGED <<gyb_src, temp_file, generated_files, cmakeVars, wrapperVars, chdirVars>>

\* Mutation: a source directory without .gyb files is taken as an error.
NextUnitOrBuildEmptyIsError(queue, log) ==
    /\ todo' = queue
    /\ IF queue # <<>>
       THEN /\ ss_log' = Append(log, Child("gyb", Head(queue)))
            /\ ss_pc' = "gyb"
            /\ UNCHANGED exit_status
       ELSE /\ ss_log' = log
            /\ Exit(1)

\* The loop of generate_gyb_files with `queue` left to process after the
\* children in `log`: the generator is spawned for the next unit; when none
\* is left generate_gyb_files returns and build_swiftsyntax spawns the build.
NextUnitOrBuild(queue, log) ==
    /\ todo' = queue
    /\ IF queue # <<>>
       THEN /\ ss_log' = Append(log, Child("gyb", Head(queue)))
            /\ ss_pc' = "gyb"
       ELSE /\ ss_log' = Append(log, BuildChild(test))
            /\ ss_pc' = "build"
    /\ UNCHANGED exit_status

\* `rsync --version` exits: fatal_error when non-zero; otherwise the
\* directories are made, the source directory is listed and the loop starts.
\* When rsync cannot be started, Popen's OSError leaves call, check_rsync
\* and main uncaught.
RsyncVersionExit(code, listing) ==
    /\ ss_pc = "rsync-version"
    /\ IF code # 0
       THEN /\ ss_log' = Exited(ss_log, code)
            /\ ss_stderr' = IF code = NotSpawned THEN Traceback("OSError")
                            ELSE <<ErrLine("Error: Could not find rsync.")>>
            /\ Exit(1)
            /\ UNCHANGED todo
       ELSE /\ NextUnitOrBuild(UnitsOf(listing), Exited(ss_log, code))
            /\ UNCHANGED ss_stderr
    /\ UNCHANGED <<gyb_src, temp_file, generated_files, written, test,
                   tests_result, ss_start, ss_prev, testEnvVars, cmakeVars, wrapperVars, chdirVars>>

\* Mutation: main ignores a failed generator and goes on to the sync.
GybExitIgnoringFailure(code) ==
    /\ ss_pc = "gyb"
    /\ temp_file' = Gyb(gyb_src[Head(todo)])
    /\ ss_log' = Append(Exited(ss_log, code), Child("rsync", Head(todo)))
    /\ ss_pc' = "rsync"
    /\ UNCHANGED <<gyb_src, generated_files, written, test, todo, exit_status,
                   tests_result, ss_start, ss_prev, testEnvVars, ss_stderr,
                   cmakeVars, wrapperVars, chdirVars>>

\* The generator exits. check_call raises CalledProcessError on a non-zero
\* exit, which main reports before sys.exit(1); after a zero exit the temp
\* file holds the generated text and rsync is spawned for it. Temp files of
\* earlier iterations and runs stay on disk but are never read again (the
\* generator rewrites a temp file before rsync reads it), so only the one
\* written last is kept.
GybExit(code) ==
    /\ ss_pc = "gyb"
    /\ IF code = 0
       THEN /\ temp_file' = Gyb(gyb_src[Head(todo)])
            /\ ss_log' = Append(Exited(ss_log, code), Child("rsync", Head(todo)))
            /\ ss_pc' = "rsync"
            /\ UNCHANGED <<exit_status, ss_stderr>>
       ELSE /\ ss_log' = Exited(ss_log, code)
            /\ ss_stderr' = RaisedReport(code, "Error: Generating .gyb files failed", "gyb")
            /\ Exit(1)
            /\ UNCHANGED temp_file
    /\ UNCHANGED <<gyb_src, generated_files, written, test, todo,
                   tests_result, ss_start, ss_prev, testEnvVars, cmakeVars, wrapperVars, chdirVars>>

\* Mutation: the sync is run with call instead of check_call, its exit code
\* dropped.
RsyncExitIgnoringFailure(code) ==
    /\ ss_pc = "rsync"
    /\ IF code = 0 /\ SyncDecision(temp_file, generated_files[Head(todo)]) = "differs"
       THEN /\ generated_files' = [generated_files EXCEPT ![Head(todo)] = temp_file]
            /\ written' = written \cup {Head(todo)}
       ELSE UNCHANGED <<generated_files, written>>
    /\ NextUnitOrBuild(Tail(todo), Exited(ss_log, code))
    /\ UNCHANGED <<gyb_src, temp_file, test, tests_result, ss_start, ss_prev,
                   testEnvVars, ss_stderr, cmakeVars, wrapperVars, chdirVars>>

\* rsync exits. A zero exit means the generated file now equals the temp
\* file, written only if rsync found them to differ; the loop goes on. A
\* non-zero exit raises CalledProcessError: main reports it and exits.
RsyncExit(code) ==
    /\ ss_pc = "rsync"
    /\ IF code = 0
       THEN /\ IF SyncDecision(temp_file, generated_files[Head(todo)]) = "differs"
               THEN /\ generated_files' =
                          [generated_files EXCEPT ![Head(todo)] = temp_file]
                    /\ written' = written \cup {Head(todo)}
               ELSE UNCHANGED <<generated_files, written>>
            /\ NextUnitOrBuild(Tail(todo), Exited(ss_log, code))
            /\ UNCHANGED ss_stderr
       ELSE /\ ss_log' = Exited(ss_log, code)
            /\ ss_stderr' = RaisedReport(code, "Error: Generating .gyb files failed", "rsync")
            /\ Exit(1)
            /\ UNCHANGED <<generated_files, written, todo>>
    /\ UNCHANGED <<gyb_src, temp_file, test, tests_result, ss_start, ss_prev,
                   testEnvVars, cmakeVars, wrapperVars, chdirVars>>

\* Mutation: the tests run whether or not --test was given.
BuildExitAlwaysTesting(code, lit_exists, incr_exists) ==
    /\ ss_pc = "build"
    /\ code = 0 /\ lit_exists /\ incr_exists
    /\ ss_log' = Append(Exited(ss_log, code), Child("show-bin-path", 0))
    /\ ss_pc' = "show-bin-path"
    /\ UNCHANGED <<gyb_src, temp_file, generated_files, written, test, todo,
                   exit_status, tests_result, ss_start, ss_prev, testEnvVars,
                   ss_stderr, cmakeVars, wrapperVars, chdirVars>>

\* The build exits. A non-zero exit raises CalledProcessError: main reports
\* it and exits. After a zero exit main is done unless args.test is set;
\* then run_tests enters run_lit_tests, whose check_lit_exec and
\* check_incr_transfer_roundtrip_exec end the run with fatal_error when
\* either script is missing, and find_lit_test_helper_exec spawns
\* `swift build --show-bin-path`.
BuildExit(code, lit_exists, incr_exists) ==
    /\ ss_pc = "build"
    /\ IF code # 0
       THEN /\ ss_log' = Exited(ss_log, code)
            /\ ss_stderr' = RaisedReport(code, "Error: Building SwiftSyntax failed", "build")
            /\ Exit(1)
       ELSE IF ~test
       THEN /\ ss_log' = Exited(ss_log, code)
            /\ Exit(0)
            /\ UNCHANGED ss_stderr
       ELSE IF ~lit_exists \/ ~incr_exists
       THEN /\ ss_log' = Exited(ss_log, code)
            /\ ss_stderr' =
                   <<ErrLine(IF ~lit_exists
                             THEN "Error: Could not find lit.py."
                             ELSE "Error: Could not find incr_transfer_round_trip.py.")>>
            /\ Exit(1)
       ELSE /\ ss_log' = Append(Exited(ss_log, code), Child("show-bin-path", 0))
            /\ ss_pc' = "show-bin-path"
            /\ UNCHANGED <<exit_status, ss_stderr>>
    /\ UNCHANGED <<gyb_src, temp_file, generated_files, written, test, todo,
                   tests_result, ss_start, ss_prev, testEnvVars, cmakeVars, wrapperVars, chdirVars>>

\* The helper lookup exits. check_output raises CalledProcessError on a
\* non-zero exit, which leaves run_tests and is reported by main. After a
\* zero exit find_lit_test_helper_exec computes bin_dir.strip() +
\* '/lit-test-helper': where the interpreter's check_output returns a str
\* (Python 2) run_lit_tests goes on to spawn lit; where it returns bytes
\* (Python 3) the concatenation raises TypeError, which nothing catches.
ShowBinPathExit(code, bytes_is_str) ==
    /\ ss_pc = "show-bin-path"
    /\ IF code = 0 /\ bytes_is_str
       THEN /\ ss_log' = Append(Exited(ss_log, code), Child("lit", 0))
            /\ ss_pc' = "lit"
            /\ UNCHANGED <<exit_status, tests_result, ss_stderr>>
       ELSE /\ ss_log' = Exited(ss_log, code)
            /\ tests_result' = "raised"
            /\ ss_stderr' = IF code = 0 THEN Traceback("TypeError")
                            ELSE RaisedReport(code, "Error: Running tests failed",
                                              "show-bin-path")
            /\ Exit(1)
    /\ UNCHANGED <<gyb_src, temp_file, generated_files, written, test, todo,
                   ss_start, ss_prev, testEnvVars, cmakeVars, wrapperVars, chdirVars>>

\* Mutation: run_tests goes on to the XCTests whatever lit returned.
LitExitNoShortCircuit(code) ==
    /\ ss_pc = "lit"
    /\ ss_log' = Append(Exited(ss_log, code), Child("xctest", 0))
    /\ ss_pc' = "xctest"
    /\ environ_path' = XctestPath(Realpath(swiftc_exec), environ_path)
    /\ child_path' = environ_path'
    /\ UNCHANGED <<gyb_src, temp_file, generated_files, written, test, todo,
                   exit_status, tests_result, ss_start, ss_prev, swiftc_exec,
                   ss_stderr, cmakeVars, wrapperVars, chdirVars>>

\* lit exits: run_lit_tests returns whether the exit code is zero. If not,
\* run_tests returns False and main exits with 1, printing nothing. Otherwise
\* run_xctests takes os.environ itself as the child's environment (subenv
\* = os.environ is no copy), puts the compiler's directory in front of its
\* PATH, which main passed on as realpath(args.swiftc_exec), and spawns the
\* XCTest run with it. When lit cannot be started, Popen's OSError is
\* caught nowhere.
LitExit(code) ==
    /\ ss_pc = "lit"
    /\ IF code = NotSpawned
       THEN /\ ss_log' = Exited(ss_log, code)
            /\ tests_result' = "raised"
            /\ ss_stderr' = Traceback("OSError")
            /\ Exit(1)
            /\ UNCHANGED <<environ_path, child_path>>
       ELSE IF CallSucceeded(code)
       THEN /\ ss_log' = Append(Exited(ss_log, code), Child("xctest", 0))
            /\ ss_pc' = "xctest"
            /\ environ_path' = XctestPath(Realpath(swiftc_exec), environ_path)
            /\ child_path' = environ_path'
            /\ UNCHANGED <<exit_status, tests_result, ss_stderr>>
       ELSE /\ ss_log' = Exited(ss_log, code)
            /\ tests_result' = "False"
            /\ Exit(1)
            /\ UNCHANGED <<environ_path, child_path, ss_stderr>>
    /\ UNCHANGED <<gyb_src, temp_file, generated_files, written, test, todo,
                   ss_start, ss_prev, swiftc_exec, cmakeVars, wrapperVars, chdirVars>>

\* The XCTest run exits: run_xctests returns whether the exit code is zero,
\* run_tests returns the same, and main exits with 1 on False, printing
\* nothing, and returns on True. When the run cannot be started, Popen's
\* OSError is caught nowhere.
XctestExit(code) ==
    /\ ss_pc = "xctest"
    /\ ss_log' = Exited(ss_log, code)
    /\ IF code = NotSpawned
       THEN /\ tests_result' = "raised"
            /\ ss_stderr' = Traceback("OSError")
            /\ Exit(1)
       ELSE /\ tests_result' = IF CallSucceeded(code) THEN "True" ELSE "False"
            /\ Exit(IF CallSucceeded(code) THEN 0 ELSE 1)
            /\ UNCHANGED ss_stderr
    /\ UNCHANGED <<gyb_src, temp_file, generated_files, written, test, todo,
                   ss_start, ss_prev, testEnvVars, cmakeVars, wrapperVars, chdirVars>>

\* Between two runs one .gyb file is edited (once or several times).
EditGyb(stem, input) ==
    /\ ss_pc = "idle"
    /\ ss_prev # <<>>
    /\ stem \in DOMAIN gyb_src
    /\ gyb_src[stem] # input
    /\ \A k \in DOMAIN gyb_src \ {stem} : gyb_src[k] = ss_start.src[k]
    /\ gyb_src' = [gyb_src EXCEPT ![stem] = input]
    /\ UNCHANGED <<temp_file, generated_files, written, test, ss_pc, ss_log,
                   todo, exit_status, tests_result, ss_start, ss_prev,
                   testEnvVars, ss_stderr, cmakeVars, wrapperVars, chdirVars>>

\* A checkout with 0..MaxUnits .gyb files and a generated directory that is
\* empty or holds any generated text for each output name; no run yet.
InitSyntax ==
    /\ \E n \in 0 .. MaxUnits : gyb_src \in [1 .. n -> Inputs]
    /\ temp_file = Missing
    /\ generated_files \in {[k \in Stems |-> Missing]} \cup [Stems -> Outputs]
    /\ written = {}
    /\ test = FALSE
    /\ ss_pc = "idle"
    /\ ss_log = <<>>
    /\ todo = <<>>
    /\ exit_status = -1
    /\ tests_result = "none"
    /\ ss_start = [src |-> gyb_src, gen |-> generated_files]
    /\ ss_prev = <<>>
    /\ swiftc_exec = DefaultSwiftcExec
    /\ environ_path = InheritedPath
    /\ child_path = NotPassed
    /\ ss_stderr = <<>>

\* One run of the driver, from any state of the checkout.
NextSyntax ==
    \/ \E test_flag \in BOOLEAN, gyb_exists \in BOOLEAN,
          swiftc_arg \in SwiftcExecArgs :
           SyntaxMain(test_flag, gyb_exists, swiftc_arg)
    \/ \E code \in ChildOutcomes, listing \in Listings(DirEntries) :
           RsyncVersionExit(code, listing)
    \/ \E code \in ChildOutcomes : GybExit(code)
    \/ \E code \in ChildOutcomes : RsyncExit(code)
    \/ \E code \in ChildOutcomes, lit_exists \in BOOLEAN, incr_exists \in BOOLEAN :
           BuildExit(code, lit_exists, incr_exists)
    \/ \E code \in ChildOutcomes, bytes_is_str \in BOOLEAN :
           ShowBinPathExit(code, bytes_is_str)
    \/ \E code \in ChildOutcomes : LitExit(code)
    \/ \E code \in ChildOutcomes : XctestExit(code)

\* A child process succeeds or fails.
Outcomes == {0, 1}

\* Any number of runs of the driver without --test, one after the other,
\* with a .gyb file edited between runs or not: the code-generation phase
\* and the build it leads to.
NextCodeGen ==
    \/ \E gyb_exists \in BOOLEAN : SyntaxMain(FALSE, gyb_exists, DefaultSwiftcExec)
    \/ \E code \in Outcomes, listing \in Listings(DirEntries) :
           RsyncVersionExit(code, listing)
    \/ \E code \in Outcomes : GybExit(code)
    \/ \E code \in Outcomes : RsyncExit(code)
    \/ \E code \in Outcomes : BuildExit(code, TRUE, TRUE)
    \/ ProcessEnds
    \/ \E stem \in Stems, input \in Inputs : EditGyb(stem, input)

\* =========================================================================
\* The process-running wrappers: call and check_call of build-script.py,
\* call and call_output of Utilities/helpers.py, call and call_output of
\* build-script-helper.py
\* =========================================================================

Wrappers ==
    { "build-script.call", "build-script.check_call",
      "helpers.call", "helpers.call_output",
      "build-script-helper.call", "build-script-helper.call_output" }

\* The wrapper returns value to its caller.
Returned(value) == [kind |-> "returned", value |-> value]

\* The wrapper leaves to its caller with an exception.
Raised(exception) == [kind |-> "raised", value |-> <<exception>>]

\* error(): raise SystemExit(1), which ends the run.
SystemExit(status) == [kind |-> "exit", value |-> <<status>>]

\* Mutation: helpers.call logs the failure and does not re-raise it.
WrapperResultSwallowing(wrapper, code) ==
    IF wrapper = "build-script.call"
    THEN (IF code = NotSpawned THEN Raised("OSError") ELSE Returned(<<code>>))
    ELSE IF wrapper = "build-script.check_call"
    THEN (IF code = NotSpawned THEN Raised("OSError")
          ELSE IF code = 0 THEN Returned(<<0>>)
          ELSE Raised("CalledProcessError"))
    ELSE IF wrapper = "helpers.call"
    THEN (IF code = NotSpawned THEN Raised("OSError") ELSE Returned(<<>>))
    ELSE IF wrapper = "helpers.call_output"
    THEN (IF code = NotSpawned THEN Raised("OSError")
          ELSE IF code = 0 THEN Returned(<<"output">>)
          ELSE Raised("CalledProcessError"))
    ELSE IF wrapper = "build-script-helper.call"
    THEN (IF code = 0 THEN Returned(<<>>) ELSE SystemExit(1))
    ELSE (IF code = 0 THEN Returned(<<"output">>) ELSE SystemExit(1))

\* What each wrapper hands to its caller when the child it spawned came to
\* `code`. Popen.wait gives the exit code and call of build-script.py
\* returns it as it is; subprocess.check_call and check_output raise
\* CalledProcessError on a non-zero code, which check_call of build-script.py
\* lets through, the wrappers of helpers.py log and re-raise, and the
\* wrappers of build-script-helper.py turn into error(). A program that
\* cannot be started is an OSError, which only build-script-helper.py
\* catches (except Exception).
WrapperResult(wrapper, code) ==
    IF wrapper = "build-script.call"
    THEN (IF code = NotSpawned THEN Raised("OSError") ELSE Returned(<<code>>))
    ELSE IF wrapper = "build-script.check_call"
    THEN (IF code = NotSpawned THEN Raised("OSError")
          ELSE IF code = 0 THEN Returned(<<0>>)
          ELSE Raised("CalledProcessError"))
    ELSE IF wrapper = "helpers.call"
    THEN (IF code = NotSpawned THEN Raised("OSError")
          ELSE IF code = 0 THEN Returned(<<>>)
          ELSE Raised("CalledProcessError"))
    ELSE IF wrapper = "helpers.call_output"
    THEN (IF code = NotSpawned THEN Raised("OSError")
          ELSE IF code = 0 THEN Returned(<<"output">>)
          ELSE Raised("CalledProcessError"))
    ELSE IF wrapper = "build-script-helper.call"
    THEN (IF code = 0 THEN Returned(<<>>) ELSE SystemExit(1))
    ELSE (IF code = 0 THEN Returned(<<"output">>) ELSE SystemExit(1))

\* What the wrapper prints or logs before it spawns the child: the command
\* line when verbose (build-script.py, build-script-helper.py), a
\* logging.info record always (helpers.py).
WrapperEcho(wrapper, verbose) ==
    IF wrapper \in {"helpers.call", "helpers.call_output"}
    THEN <<[text |-> "info", cmd |-> "cmd"]>>
    ELSE CallEcho("cmd", verbose)

\* What the wrapper prints or logs once the child came to `code`.
WrapperReport(wrapper, verbose, code) ==
    IF wrapper \in {"helpers.call", "helpers.call_output"}
    THEN (IF code > 0
          THEN <<[text |-> "debug", cmd |-> "cmd"], ErrorLine("cmd")>>
          ELSE <<>>)
    ELSE IF wrapper \in {"build-script-helper.call", "build-script-helper.call_output"}
    THEN (IF code # 0 THEN CallReport("cmd", verbose) ELSE <<>>)
    ELSE <<>>

\* The cwd argument of a wrapper: None (the default), an empty string, a
\* directory.
CwdArgs == {"None", "", "dir"}

\* `cwd = cwd or pathlib.Path.cwd()`, the first statement of call and
\* call_output of helpers.py, asks for the working directory of the process
\* when the cwd argument is None or empty. The other wrappers never ask.
ReadsWorkingDirectory(wrapper, cwd) ==
    /\ wrapper \in {"helpers.call", "helpers.call_output"}
    /\ cwd \in {"None", ""}

\* A caller invokes a wrapper, which spawns the child and waits for it.
\* wd_removed: the working directory of the process has been removed, so
\* that pathlib.Path.cwd() raises FileNotFoundError, an OSError; a wrapper
\* that asks for it leaves with that exception before it has logged
\* anything and has started no child.
Invoke(wrapper, verbose, cwd, wd_removed) ==
    /\ w_pc = "ready"
    /\ Len(w_log) < MaxCalls
    /\ IF ReadsWorkingDirectory(wrapper, cwd) /\ wd_removed
       THEN /\ w_log' = Append(w_log, [wrapper |-> wrapper, verbose |-> verbose,
                                       code |-> NotSpawned,
                                       result |-> Raised("OSError"),
                                       printed |-> <<>>])
            /\ w_pc' = "raised"
       ELSE /\ w_log' = Append(w_log, [wrapper |-> wrapper, verbose |-> verbose,
                                       code |-> -1,
                                       result |-> [kind |-> "pending", value |-> <<>>],
                                       printed |-> WrapperEcho(wrapper, verbose)])
            /\ w_pc' = "waiting"
    /\ UNCHANGED <<cmakeVars, syntaxVars, chdirVars>>

\* The child exits with code, or could not be started: the wrapper hands
\* its result to the caller, who goes on after a normal return.
ChildDone(code) ==
    /\ w_pc = "waiting"
    /\ LET n == Len(w_log)
           this == w_log[n]
           result == WrapperResult(this.wrapper, code)
       IN  /\ w_log' = [w_log EXCEPT
                          ![n].code = code,
                          ![n].result = result,
                          ![n].printed = @ \o WrapperReport(this.wrapper, this.verbose, code)]
           /\ w_pc' = IF result.kind = "returned" THEN "ready"
                      ELSE IF result.kind = "raised" THEN "raised"
                      ELSE "exited"
    /\ UNCHANGED <<cmakeVars, syntaxVars, chdirVars>>

NextWrappers ==
    \/ \E wrapper \in Wrappers, verbose \in BOOLEAN, cwd \in CwdArgs, wd_removed \in BOOLEAN :
          Invoke(wrapper, verbose, cwd, wd_removed)
    \/ \E code \in ChildOutcomes : ChildDone(code)

\* =========================================================================
\* change_directory of Utilities/helpers.py: a context manager that enters
\* a directory for the time of its with block. A step is what the process
\* does between two points where the caller's code decides: entering a
\* context, the body changing directory itself, the body raising, a context
\* exiting, an enclosing except clause catching.
\* =========================================================================

\* The directories that exist; the process makes and removes none.
Directories == {<<"/">>, <<"/", "a">>, <<"/", "a", "b">>}

\* Arguments of os.chdir: absolute and relative paths of directories that
\* exist and of one that does not.
DirectoryArgs ==
    {<<"/">>, <<"/", "a">>, <<"a">>, <<"b">>, <<"..">>, <<"/", "gone">>}

\* The directory os.chdir(directory) names for a process whose working
\* directory is cwd: a relative path is taken from cwd.
ChdirTarget(cwd, directory) ==
    NormPath(<<>>, IF directory[1] = "/" THEN directory ELSE cwd \o directory)

\* os.chdir(directory) raises FileNotFoundError.
ChdirRaises(cwd, directory) == ChdirTarget(cwd, directory) \notin Directories

\* pathlib.Path.cwd(): the absolute path of the working directory.
PathCwd == cd_cwd

\* The generator of one change_directory call suspended at its yield:
\* its local current_directory; entry numbers the calls and entered_in is
\* the working directory at the call.
Frame(current_directory) ==
    [current_directory |-> current_directory,
     entry |-> cd_entered + 1,
     entered_in |-> cd_cwd]

\* `with change_directory(directory):` up to the body. current_directory is
\* saved and the directory entered; when os.chdir raises, the generator has
\* not reached its try, no body runs, and the exception is the caller's.
ChangeDirectory(directory) ==
    /\ cd_pc = "body"
    /\ Len(cd_stack) < MaxDepth
    /\ cd_entered < MaxEntries
    /\ IF ChdirRaises(cd_cwd, directory)
       THEN /\ cd_pc' = "raising"
            /\ UNCHANGED <<cd_cwd, cd_stack, cd_entered>>
       ELSE /\ cd_stack' = Append(cd_stack, Frame(PathCwd))
            /\ cd_cwd' = ChdirTarget(cd_cwd, directory)
            /\ cd_entered' = cd_entered + 1
            /\ UNCHANGED cd_pc
    /\ UNCHANGED <<cd_log, cmakeVars, syntaxVars, wrapperVars>>

\* The body of a with block calls os.chdir itself.
BodyChdir(directory) ==
    /\ cd_pc = "body"
    /\ cd_stack # <<>>
    /\ IF ChdirRaises(cd_cwd, directory)
       THEN /\ cd_pc' = "raising"
            /\ UNCHANGED cd_cwd
       ELSE /\ cd_cwd' = ChdirTarget(cd_cwd, directory)
            /\ UNCHANGED cd_pc
    /\ UNCHANGED <<cd_stack, cd_entered, cd_log, cmakeVars, syntaxVars, wrapperVars>>

\* The body of a with block raises.
BodyRaises ==
    /\ cd_pc = "body"
    /\ cd_stack # <<>>
    /\ cd_pc' = "raising"
    /\ UNCHANGED <<cd_cwd, cd_stack, cd_entered, cd_log, cmakeVars, syntaxVars,
                   wrapperVars>>

\* What is kept of a context that exited: the frame, whether an exception
\* left the body, the working directory the body left and the one after
\* the exit, and the calls whose contexts are still open.
ExitRecord(frame, raised, cwd_after, open) ==
    [entry |-> frame.entry,
     entered_in |-> frame.entered_in,
     raised |-> raised,
     body_cwd |-> cd_cwd,
     cwd |-> cwd_after,
     open |-> {open[i].entry : i \in DOMAIN open}]

\* Mutation: no try/finally around the yield; an exception in the body
\* skips the os.chdir back.
ContextExitWithoutFinally ==
    /\ cd_stack # <<>>
    /\ LET frame == cd_stack[Len(cd_stack)]
           open == SubSeq(cd_stack, 1, Len(cd_stack) - 1)
       IN  /\ cd_cwd' = IF cd_pc = "raising" THEN cd_cwd
                        ELSE frame.current_directory
           /\ cd_stack' = open
           /\ cd_log' = Append(cd_log, ExitRecord(frame, cd_pc = "raising", cd_cwd', open))
    /\ UNCHANGED <<cd_pc, cd_entered, cmakeVars, syntaxVars, wrapperVars>>

\* The innermost with block is left, by its body completing or by an
\* exception passing through it: the generator resumes at its yield, the
\* finally clause changes back to current_directory, and the exception, if
\* any, goes on to the enclosing code.
ContextExit ==
    /\ cd_stack # <<>>
    /\ LET frame == cd_stack[Len(cd_stack)]
           open == SubSeq(cd_stack, 1, Len(cd_stack) - 1)
       IN  /\ cd_cwd' = frame.current_directory
           /\ cd_stack' = open
           /\ cd_log' = Append(cd_log, ExitRecord(frame, cd_pc = "raising", cd_cwd', open))
    /\ UNCHANGED <<cd_pc, cd_entered, cmakeVars, syntaxVars, wrapperVars>>

\* An except clause of the code around the innermost open context (or
\* around all of them) catches the exception.
Caught ==
    /\ cd_pc = "raising"
    /\ cd_pc' = "body"
    /\ UNCHANGED <<cd_cwd, cd_stack, cd_entered, cd_log, cmakeVars, syntaxVars,
                   wrapperVars>>

\* A process in any directory, no context entered.
InitChdir ==
    /\ cd_cwd \in Directories
    /\ cd_stack = <<>>
    /\ cd_pc = "body"
    /\ cd_entered = 0
    /\ cd_log = <<>>

NextChdir ==
    \/ \E directory \in DirectoryArgs : ChangeDirectory(directory)
    \/ \E directory \in DirectoryArgs : BodyChdir(directory)
    \/ BodyRaises
    \/ ContextExit
    \/ Caught

\* =========================================================================
\* Specifications: one driver runs, the other is not started.
\* =========================================================================

CMakeIdle ==
    /\ build_dir = "absent"
    /\ cache = NoFile
    /\ args = NoArgs
    /\ bwc_pc = "idle"
    /\ bwc_lookups = <<>>
    /\ bwc_lookup_todo = <<>>
    /\ bwc_log = <<>>
    /\ bwc_start = [dir |-> "absent", cache |-> NoFile]
    /\ bwc_prev = <<>>
    /\ bwc_stdout = <<>>
    /\ bwc_stderr = <<>>
    /\ bwc_exit = -1

SyntaxIdle ==
    /\ gyb_src = <<>>
    /\ temp_file = Missing
    /\ generated_files = [k \in Stems |-> Missing]
    /\ written = {}
    /\ test = FALSE
    /\ ss_pc = "idle"
    /\ ss_log = <<>>
    /\ todo = <<>>
    /\ exit_status = -1
    /\ tests_result = "none"
    /\ ss_start = [src |-> <<>>, gen |-> [k \in Stems |-> Missing]]
    /\ ss_prev = <<>>
    /\ swiftc_exec = DefaultSwiftcExec
    /\ environ_path = InheritedPath
    /\ child_path = NotPassed
    /\ ss_stderr = <<>>

WrappersIdle ==
    /\ w_pc = "ready"
    /\ w_log = <<>>

ChdirIdle ==
    /\ cd_cwd = <<"/">>
    /\ cd_stack = <<>>
    /\ cd_pc = "body"
    /\ cd_entered = 0
    /\ cd_log = <<>>

\* build_tsc is called again and again with tool paths already resolved,
\* on the build directory the calls before left.
InitCMakeOnly == InitCMake /\ SyntaxIdle /\ WrappersIdle /\ ChdirIdle

SpecCMake == InitCMakeOnly /\ [][NextCMake]_vars

InitSyntaxOnly == InitSyntax /\ CMakeIdle /\ WrappersIdle /\ ChdirIdle

SpecSyntax == InitSyntaxOnly /\ [][NextSyntax]_vars

SpecCodeGen == InitSyntaxOnly /\ [][NextCodeGen]_vars

\* Either driver is started, on any state of what it works on, and runs
\* once, build-script-helper.py from main on, its path lookups included;
\* the other is never started.
InitDrivers == InitCMakeOnly \/ InitSyntaxOnly

NextDrivers ==
    \/ \E reconfigure \in BOOLEAN, swiftc_path \in Paths, verbose \in BOOLEAN,
          given \in SUBSET {"swiftc", "cmake", "ninja"}, darwin \in BOOLEAN,
          python2 \in BOOLEAN :
           /\ bwc_pc = "idle"
           /\ ss_pc = "idle" /\ ss_prev = <<>>
           /\ Build(reconfigure, swiftc_path, verbose, given, darwin, python2)
           /\ SyntaxIdle
    \/ \E code \in ChildOutcomes : LookupExit(code) /\ SyntaxIdle
    \/ \E code \in ChildOutcomes, wrote \in BOOLEAN :
           CmakeExit(code, wrote) /\ SyntaxIdle
    \/ \E code \in ChildOutcomes : NinjaExit(code) /\ SyntaxIdle
    \/ \E test_flag \in BOOLEAN, gyb_exists \in BOOLEAN,
          swiftc_arg \in SwiftcExecArgs :
           SyntaxMain(test_flag, gyb_exists, swiftc_arg) /\ CMakeIdle
    \/ \E code \in ChildOutcomes, listing \in Listings(DirEntries) :
           RsyncVersionExit(code, listing) /\ CMakeIdle
    \/ \E code \in ChildOutcomes : GybExit(code) /\ CMakeIdle
    \/ \E code \in ChildOutcomes : RsyncExit(code) /\ CMakeIdle
    \/ \E code \in ChildOutcomes, lit_exists \in BOOLEAN, incr_exists \in BOOLEAN :
           BuildExit(code, lit_exists, incr_exists) /\ CMakeIdle
    \/ \E code \in ChildOutcomes, bytes_is_str \in BOOLEAN :
           ShowBinPathExit(code, bytes_is_str) /\ CMakeIdle
    \/ \E code \in ChildOutcomes : LitExit(code) /\ CMakeIdle
    \/ \E code \in ChildOutcomes : XctestExit(code) /\ CMakeIdle

SpecDrivers == InitDrivers /\ [][NextDrivers]_vars

\* A caller makes up to MaxCalls wrapper calls; no driver is started.
InitWrappers == CMakeIdle /\ SyntaxIdle /\ WrappersIdle /\ ChdirIdle

SpecWrappers == InitWrappers /\ [][NextWrappers]_vars

\* A process enters up to MaxEntries contexts, nested up to MaxDepth deep;
\* no driver is started and no wrapper called.
InitChdirOnly == InitChdir /\ CMakeIdle /\ SyntaxIdle /\ WrappersIdle

SpecChdir == InitChdirOnly /\ [][NextChdir]_vars



\* -------------------------------------------------- build_with_cmake: claims

\* The tools of the child processes in log, in spawn order.
ToolsOf(log) == [i \in DOMAIN log |-> log[i].tool]

ConfigureInvoked == \E i \in DOMAIN bwc_log : bwc_log[i].tool = "cmake"

\* The cache marker the run found exists and records the path the run resolved.
CacheWasCurrent == bwc_start.cache = CacheRecord(args.swiftc_path)

\* C2: a run that finds a cache marker recording the currently resolved
\* toolchain path, without --reconfigure, never invokes cmake.
C2_NoConfigureWhenCacheCurrent ==
    (bwc_pc # "idle" /\ CacheWasCurrent /\ ~args.reconfigure) => ~ConfigureInvoked

C2_Witness ==
    /\ bwc_pc = "returned"
    /\ CacheWasCurrent
    /\ ~args.reconfigure
    /\ ToolsOf(bwc_log) = <<"ninja">>

\* C3: for every pair of different paths (recorded, current), a run that
\* finds a cache marker recording `recorded` while the resolved toolchain
\* path is `current` invokes cmake, even without --reconfigure.
C3_ConfigureWhenToolchainDiffers ==
    \A recorded \in Paths, current \in Paths :
        ( /\ recorded # current
          /\ bwc_pc # "idle"
          /\ bwc_start.cache = CacheRecord(recorded)
          /\ args.swiftc_path = current
          /\ ~args.reconfigure )
        => ConfigureInvoked

\* A path lookup of parse_build_args exited non-zero or could not be
\* started; what `uname -p` came to is not a failure of the run.
LookupFailed(i) ==
    /\ bwc_lookups[i].tool # UnameCmd
    /\ bwc_lookups[i].code \notin {0, -1}

\* build_with_cmake has been entered in the current run.
Entered ==
    /\ bwc_pc \notin {"idle", "lookup"}
    /\ \A i \in DOMAIN bwc_lookups : ~LookupFailed(i)

\* The condition of C4: the run found no cache marker, or was given
\* --reconfigure.
AbsentOrForced == Entered /\ (bwc_start.cache = NoFile \/ args.reconfigure)

\* A process of the configure tool was started as the first child of the
\* run: the call of cmake was made with a working directory that exists,
\* and Popen did not fail.
ConfigureStartedFirst ==
    /\ bwc_log # <<>>
    /\ bwc_log[1].tool = "cmake"
    /\ bwc_log[1].cwd_exists
    /\ bwc_log[1].code # NotSpawned

\* C4 as stated: a run that finds no cache marker, and a run with
\* --reconfigure whatever the cache marker holds, invokes cmake (as its
\* first child).
C4_ConfigureWhenAbsentOrForced == AbsentOrForced => ConfigureStartedFirst

\* C4, amended: a run that finds no cache marker, and a run with
\* --reconfigure whatever the cache marker holds, calls mkdir_p on the build
\* directory. When mkdir_p raises (no directory can be made at the path),
\* the run ends with status 1 and a traceback and calls no tool. Otherwise
\* the call of cmake is the first the run makes, with a working directory
\* that exists exactly when the path was free or held a directory, not
\* when it held anything else. Without that directory no cmake process
\* starts; and whenever no cmake process starts, for want of the directory
\* or of the program, call() reports the failure on standard output and the
\* run ends with status 1, ninja never called.
C4_ConfigureCalledUnlessMkdirRaises ==
    AbsentOrForced =>
        IF bwc_start.dir = "unreachable"
        THEN /\ bwc_log = <<>>
             /\ bwc_pc = "exited"
             /\ bwc_exit = 1
             /\ bwc_stderr = Traceback("OSError")
        ELSE /\ bwc_log # <<>>
             /\ bwc_log[1].tool = "cmake"
             /\ bwc_log[1].cwd_exists = (bwc_start.dir \in {"absent", "directory"})
             /\ ~bwc_log[1].cwd_exists => bwc_log[1].code \in {-1, NotSpawned}
             /\ bwc_log[1].code = NotSpawned =>
                   /\ Len(bwc_log) = 1
                   /\ bwc_pc = "exited"
                   /\ bwc_exit = 1
                   /\ bwc_stderr = <<>>
                   /\ bwc_stdout # <<>>
                   /\ bwc_stdout[Len(bwc_stdout)] = ErrorLine("cmake")

\* A run whose build directory could not be made.
C4_WitnessMkdirFails ==
    /\ AbsentOrForced
    /\ bwc_start.dir = "unreachable"
    /\ bwc_pc = "exited"
    /\ bwc_log = <<>>

\* A run that found a regular file or a dangling link at the build
\* directory's path: the call of cmake failed on its working directory.
C4_WitnessNotADirectory ==
    /\ AbsentOrForced
    /\ bwc_start.dir = "other"
    /\ bwc_pc = "exited"
    /\ Len(bwc_log) = 1
    /\ bwc_log[1] = [tool |-> "cmake", code |-> NotSpawned, cwd_exists |-> FALSE]

\* A run whose cmake program could not be executed in the directory made
\* for it.
C4_WitnessProgramNotFound ==
    /\ AbsentOrForced
    /\ bwc_start.dir = "absent"
    /\ bwc_pc = "exited"
    /\ bwc_log = <<[tool |-> "cmake", code |-> NotSpawned, cwd_exists |-> TRUE]>>

\* A forced configure over a current cache marker: cmake ran and exited
\* zero before ninja was called.
C4_Witness ==
    /\ AbsentOrForced
    /\ bwc_pc = "ninja"
    /\ args.reconfigure
    /\ CacheWasCurrent
    /\ ToolsOf(bwc_log) = <<"cmake", "ninja">>
    /\ ConfigureStartedFirst

\* The run is past the configure step: configure was skipped, or cmake was
\* invoked and exited zero.
PastConfigure ==
    /\ Entered
    /\ \/ ~NeedsConfigure(args.reconfigure, bwc_start.cache, args.swiftc_path)
       \/ \E i \in DOMAIN bwc_log :
              bwc_log[i].tool = "cmake" /\ bwc_log[i].code = 0

\* C5: a run past the configure step has invoked ninja exactly once, as its
\* last child process, hence after cmake when cmake ran; no run invokes
\* ninja twice.
C5_BuildOnceAfterConfigure ==
    /\ PastConfigure =>
          /\ Cardinality({i \in DOMAIN bwc_log : bwc_log[i].tool = "ninja"}) = 1
          /\ bwc_log[Len(bwc_log)].tool = "ninja"
    /\ Cardinality({i \in DOMAIN bwc_log : bwc_log[i].tool = "ninja"}) <= 1

C5_Witness ==
    /\ bwc_pc = "returned"
    /\ ToolsOf(bwc_log) = <<"cmake", "ninja">>
    /\ bwc_log[1].code = 0

\* The previous run started from an absent build directory and succeeded,
\* and the current run uses the same toolchain path without --reconfigure.
SecondRunAfterFreshBuild ==
    /\ bwc_prev # <<>>
    /\ bwc_prev[1].start.dir = "absent"
    /\ bwc_prev[1].pc = "returned"
    /\ bwc_prev[1].args.swiftc_path = args.swiftc_path
    /\ ~args.reconfigure
    /\ bwc_pc \in {"ninja", "returned", "exited"}

\* C6: a successful run from an absent build directory invokes cmake once
\* and then ninja once; the next run with the same toolchain path and no
\* --reconfigure invokes only ninja, once.
C6_FreshThenIncremental ==
    /\ (bwc_start.dir = "absent" /\ bwc_pc = "returned")
          => (ToolsOf(bwc_log) = <<"cmake", "ninja">>)
    /\ SecondRunAfterFreshBuild => (ToolsOf(bwc_log) = <<"ninja">>)

C6_Witness ==
    /\ SecondRunAfterFreshBuild
    /\ bwc_pc = "returned"
    /\ ToolsOf(bwc_prev[1].log) = <<"cmake", "ninja">>
    /\ ToolsOf(bwc_log) = <<"ninja">>


\* ------------------------------------------------ swift-syntax driver: claims

\* Positions in ss_log of the child processes running tool.
LogOf(tool) == {i \in DOMAIN ss_log : ss_log[i].tool = tool}

\* The child process at position i has exited with a non-zero code.
Failed(i) == ss_log[i].code > 0

\* Every child spawned before position i completed with exit code zero, and
\* for every .gyb file the generator and then the sync were among them.
CodeGenCompleteBefore(i) ==
    /\ \A j \in 1 .. (i - 1) :
          /\ ss_log[j].code = 0
          /\ ss_log[j].tool \in {"rsync-version", "gyb", "rsync"}
    /\ \A k \in DOMAIN ss_start.src :
          \E g \in 1 .. (i - 1), r \in 1 .. (i - 1) :
              /\ g < r
              /\ ss_log[g] = [tool |-> "gyb", unit |-> k, code |-> 0]
              /\ ss_log[r] = [tool |-> "rsync", unit |-> k, code |-> 0]

\* C1: the build is started only after every generator and sync invocation
\* has completed successfully; the helper lookup, the lit run and the XCTest
\* run are started only after the build has completed successfully; without
\* --test none of them is ever started.
C1_PipelineOrder ==
    /\ \A i \in LogOf("build") : CodeGenCompleteBefore(i)
    /\ \A i \in DOMAIN ss_log :
          ss_log[i].tool \in TestTools =>
              \E b \in LogOf("build") : b < i /\ ss_log[b].code = 0
    /\ ~test => \A i \in DOMAIN ss_log : ss_log[i].tool \notin TestTools

C1_Witness ==
    /\ test
    /\ ss_pc = "exited"
    /\ Cardinality(LogOf("gyb")) = 2
    /\ LogOf("build") # {}
    /\ LogOf("xctest") # {}

\* C7: once the generator has exited non-zero for an input, the run is over
\* with exit status 1 and has started neither the build nor any test step.
C7_GeneratorFailureAborts ==
    \A i \in LogOf("gyb") :
        Failed(i) =>
            /\ i = Len(ss_log)
            /\ ss_pc = "exited"
            /\ exit_status = 1
            /\ LogOf("build") = {}
            /\ \A j \in DOMAIN ss_log : ss_log[j].tool \notin TestTools

C7_Witness ==
    /\ ss_pc = "exited"
    /\ Cardinality(LogOf("gyb")) = 2
    /\ LogOf("rsync") # {}
    /\ Failed(Len(ss_log))
    /\ ss_log[Len(ss_log)].tool = "gyb"

\* C8: when the lit run exits non-zero the XCTest run is never started and
\* run_tests returns False; an XCTest run is always preceded by the lit run.
C8_LitFailureShortCircuits ==
    /\ \A i \in LogOf("lit") :
          Failed(i) => (LogOf("xctest") = {} /\ tests_result = "False")
    /\ \A x \in LogOf("xctest") : \E l \in LogOf("lit") : l < x

C8_Witness ==
    /\ ss_pc = "exited"
    /\ \E i \in LogOf("lit") : Failed(i)
    /\ tests_result = "False"

\* The lit run and the XCTest run were both invoked and both exited zero.
BothSuitesPassed ==
    /\ \E i \in LogOf("lit") : ss_log[i].code = 0
    /\ \E i \in LogOf("xctest") : ss_log[i].code = 0

\* C9: run_tests returns True exactly when the lit run and the XCTest run
\* were both invoked and both exited zero; once a suite has exited with any
\* other code it returns False.
C9_TestsSucceedIffBothZero ==
    /\ tests_result = "True" <=> BothSuitesPassed
    /\ (\E i \in LogOf("lit") \cup LogOf("xctest") : Failed(i))
          => tests_result = "False"

C9_Witness ==
    /\ tests_result = "True"
    /\ BothSuitesPassed
    /\ exit_status = 0

C9_WitnessFailure ==
    /\ tests_result = "False"
    /\ \E i \in LogOf("lit") : ss_log[i].code = 0
    /\ \E i \in LogOf("xctest") : Failed(i)

\* The current run follows a run since which no .gyb file has changed.
SecondRunSourcesUnchanged ==
    /\ ss_pc # "idle"
    /\ ss_prev # <<>>
    /\ ss_prev[1].changed = {}

\* The current run has written no generated file: each has the content and
\* the modification time the run found.
NoGeneratedFileWritten ==
    /\ written = {}
    /\ generated_files = ss_start.gen

\* The generator ran and exited zero every time it did, in the current run
\* and in the run before: it behaved alike in both.
GeneratorSucceededInBoth ==
    /\ ss_prev[1].rerun[1].generator_ok
    /\ LogOf("gyb") # {}
    /\ \A i \in LogOf("gyb") : ss_log[i].code \in {-1, 0}

\* The output names the run before synced (its rsync exited zero).
SyncedBefore == ss_prev[1].rerun[1].synced

\* C10 as stated, for a deterministic generator that succeeds whenever it
\* runs: a run that follows another run, with every .gyb file unchanged in
\* between, writes no generated file.
C10_SecondRunWritesNothing ==
    (SecondRunSourcesUnchanged /\ GeneratorSucceededInBoth) => NoGeneratedFileWritten

\* C10, amended: in a run that follows another run, with every .gyb file
\* unchanged in between, every generated file that is written was missing
\* or differed from the generator's output when the run started and was not
\* synced by the run before; every other generated file keeps its content
\* and modification time; and when the code-generation phase of the run
\* before completed, no generated file is written at all. This holds
\* however the generator exits.
C10_SecondRunWritesOnlyUnsyncedFiles ==
    SecondRunSourcesUnchanged =>
        /\ \A k \in written :
              /\ k \notin SyncedBefore
              /\ ss_start.gen[k] # Gyb(gyb_src[k])
        /\ \A k \in Stems \ written : generated_files[k] = ss_start.gen[k]
        /\ ss_prev[1].generated => NoGeneratedFileWritten

\* A run after one that synced the first unit and ended on a failed sync of
\* the second, the generator succeeding throughout: the first unit's file
\* is left alone, the second's is written.
C10_Witness ==
    /\ SecondRunSourcesUnchanged
    /\ GeneratorSucceededInBoth
    /\ ~ss_prev[1].generated
    /\ SyncedBefore # {}
    /\ ss_pc = "exited"
    /\ exit_status = 0
    /\ written # {}
    /\ \E k \in SyncedBefore :
          /\ k \notin written
          /\ \E i \in LogOf("rsync") : ss_log[i].unit = k /\ ss_log[i].code = 0

\* A run after one that ended on a failed generator, which fails again.
C10_WitnessGeneratorFailsAgain ==
    /\ SecondRunSourcesUnchanged
    /\ ~ss_prev[1].rerun[1].generator_ok
    /\ SyncedBefore # {}
    /\ ss_pc = "exited"
    /\ \E i \in LogOf("gyb") : Failed(i)
    /\ \E i \in LogOf("rsync") : ss_log[i].unit \in SyncedBefore /\ ss_log[i].code = 0
    /\ NoGeneratedFileWritten

\* A run after one whose code-generation phase completed: nothing written.
C10_WitnessCompleteRun ==
    /\ SecondRunSourcesUnchanged
    /\ ss_prev[1].generated
    /\ ss_pc = "exited"
    /\ exit_status = 0
    /\ Cardinality(LogOf("rsync")) = 2
    /\ NoGeneratedFileWritten

\* The code-generation phase of the current run completed: the build was
\* started.
CodeGenCompleted == \E i \in DOMAIN ss_log : ss_log[i].tool = "build"

\* The current run and the run before it both completed their
\* code-generation phase, and between them the content of <k>.gyb changed
\* and that of no other .gyb file.
OnlyInputChanged(k) ==
    /\ ss_prev # <<>>
    /\ ss_prev[1].generated
    /\ ss_prev[1].changed = {k}
    /\ CodeGenCompleted

\* C11 as stated: when exactly one .gyb file changed between two consecutive
\* successful runs of the code-generation phase, the second run overwrites
\* the generated file of that unit with the new content and writes no
\* generated file of any other unit.
C11_OnlyChangedUnitOverwritten ==
    \A k \in Stems :
        OnlyInputChanged(k) =>
            /\ written = {k}
            /\ generated_files[k] = Gyb(gyb_src[k])

\* C11, amended: when exactly one .gyb file changed between two consecutive
\* successful runs of the code-generation phase, the second run writes no
\* generated file of any other unit; it overwrites the generated file of the
\* changed unit exactly when the generator's output for it differs from the
\* file's content, and in either case the file ends up holding the output
\* generated from the new input.
C11_OnlyChangedUnitWrittenIfOutputDiffers ==
    \A k \in Stems :
        OnlyInputChanged(k) =>
            /\ written \subseteq {k}
            /\ k \in written <=> Gyb(gyb_src[k]) # ss_start.gen[k]
            /\ generated_files[k] = Gyb(gyb_src[k])
            /\ \A j \in Stems \ {k} : generated_files[j] = ss_start.gen[j]

C11_Witness ==
    \E k \in Stems :
        /\ OnlyInputChanged(k)
        /\ Cardinality(DOMAIN gyb_src) = 2
        /\ written = {k}
        /\ generated_files[k] # ss_start.gen[k]
        /\ ss_pc = "exited"
        /\ exit_status = 0


\* ------------------------------------------------------ both drivers: claims

\* The messages of fatal_error for a required tool that was not found.
CouldNotFind ==
    { "Error: Could not find gyb.", "Error: Could not find rsync.",
      "Error: Could not find lit.py.",
      "Error: Could not find incr_transfer_round_trip.py." }

\* A phase of the swift-syntax run failed: a child process exited non-zero
\* or could not be started, or a required tool was reported as not found.
SyntaxPhaseFailed ==
    \/ \E i \in DOMAIN ss_log : ss_log[i].code \notin {0, -1}
    \/ \E j \in DOMAIN ss_stderr : ss_stderr[j].text \in CouldNotFind

\* A phase of the build-script-helper.py run failed: a path lookup, cmake
\* or ninja exited non-zero or could not be started, or the build directory
\* could not be made.
CMakePhaseFailed ==
    \/ \E i \in DOMAIN bwc_lookups : LookupFailed(i)
    \/ \E i \in DOMAIN bwc_log : bwc_log[i].code \notin {0, -1}
    \/ bwc_stderr = Traceback("OSError")

\* C12: each driver process exits with status 0 when every phase it
\* executed succeeded, and with status 1 when any phase failed (a generator,
\* sync, build, configure or helper-lookup command exiting non-zero, a
\* required tool not being found, or a test suite exiting non-zero).
C12_ExitStatusReflectsPhases ==
    /\ ss_pc = "exited" => exit_status = (IF SyntaxPhaseFailed THEN 1 ELSE 0)
    /\ bwc_pc \in {"returned", "exited"} =>
          bwc_exit = (IF CMakePhaseFailed THEN 1 ELSE 0)


\* run_xctests has returned: the XCTest child was started and has exited.
RunXctestsReturned == \E i \in LogOf("xctest") : ss_log[i].code >= 0

\* C13: run_xctests overrides PATH for the child only: after it returns,
\* os.environ['PATH'] of the driver is what the driver inherited.
C13_EnvironPathUnchanged == RunXctestsReturned => environ_path = InheritedPath

\* The directory holding the compiler at path.
ContainingDir(path) == SubSeq(Realpath(path), 1, Len(Realpath(path)) - 1)

\* C14: the PATH given to the XCTest child is the inherited PATH with the
\* compiler's directory put in front when --swiftc-exec was given, and the
\* inherited PATH unmodified when it was not; the inherited entries are all
\* kept, in order.
C14_ChildPathPrependsSuppliedCompiler ==
    LogOf("xctest") # {} =>
        child_path = IF swiftc_exec # DefaultSwiftcExec
                     THEN <<ContainingDir(swiftc_exec)>> \o InheritedPath
                     ELSE InheritedPath


\* ------------------------------------------------------- wrappers: claims

\* The child of the i-th wrapper call exited with a non-zero code.
ChildFailed(i) == w_log[i].code > 0

\* C15 as stated: every wrapper signals a failure to its caller (raises or
\* ends the run) whenever the child it spawned exits non-zero; none returns
\* normally after a non-zero exit.
C15_EveryWrapperSignalsFailure ==
    \A i \in DOMAIN w_log :
        ChildFailed(i) => w_log[i].result.kind \in {"raised", "exit"}

\* C15, amended: check_call of build-script.py, call and call_output of
\* helpers.py and call and call_output of build-script-helper.py signal a
\* failure to their caller (raise or end the run) whenever the child exits
\* non-zero, and none of them returns normally then; call of build-script.py
\* returns normally and hands the non-zero exit code to its caller.
C15_WrappersSignalFailureExceptCall ==
    \A i \in DOMAIN w_log :
        ChildFailed(i) =>
            IF w_log[i].wrapper = "build-script.call"
            THEN w_log[i].result = Returned(<<w_log[i].code>>)
            ELSE w_log[i].result.kind \in {"raised", "exit"}

C15_Witness ==
    /\ Len(w_log) = 2
    /\ w_log[1].wrapper = "build-script.call"
    /\ ChildFailed(1)
    /\ w_log[1].result.kind = "returned"
    /\ w_log[2].wrapper = "helpers.call"
    /\ ChildFailed(2)
    /\ w_pc = "raised"


\* -------------------------------------- build_with_cmake: failure handling

\* Positions in bwc_log of the child processes running tool.
BwcLogOf(tool) == {i \in DOMAIN bwc_log : bwc_log[i].tool = tool}

\* C16: once cmake has exited non-zero the run is over without ninja having
\* been invoked, and no run invokes cmake or ninja more than once.
C16_ConfigureFailureStopsRun ==
    /\ (\E i \in BwcLogOf("cmake") : bwc_log[i].code > 0) =>
          /\ BwcLogOf("ninja") = {}
          /\ bwc_pc = "exited"
    /\ Cardinality(BwcLogOf("cmake")) <= 1
    /\ Cardinality(BwcLogOf("ninja")) <= 1

C16_Witness ==
    /\ bwc_pc = "exited"
    /\ ToolsOf(bwc_log) = <<"cmake">>
    /\ bwc_log[1].code = 2
    /\ bwc_exit = 1


\* ------------------------------------- generate_gyb_files: failure handling

\* The units after the current one in the order os.listdir gave.
LaterUnits == {todo[j] : j \in 2 .. Len(todo)}

\* The units whose sync has exited zero in the current run.
SyncedUnits == {ss_log[i].unit : i \in {r \in LogOf("rsync") : ss_log[r].code = 0}}

\* C17: once the generator or the sync has exited non-zero for a unit, no
\* further command is invoked, so none for a later unit; no generated file
\* of a later unit has been written; and the files synced for the units
\* before it keep the content they were synced to.
C17_FailureLeavesLaterUnitsUntouched ==
    \A i \in LogOf("gyb") \cup LogOf("rsync") :
        Failed(i) =>
            /\ i = Len(ss_log)
            /\ ss_pc = "exited"
            /\ ss_log[i].unit = Head(todo)
            /\ \A u \in LaterUnits :
                  /\ \A j \in DOMAIN ss_log : ss_log[j].unit # u
                  /\ u \notin written
                  /\ generated_files[u] = ss_start.gen[u]
            /\ \A u \in SyncedUnits : generated_files[u] = Gyb(gyb_src[u])

C17_Witness ==
    /\ ss_pc = "exited"
    /\ ss_log # <<>>
    /\ Failed(Len(ss_log))
    /\ ss_log[Len(ss_log)].tool = "rsync"
    /\ LaterUnits # {}
    /\ \E u \in LaterUnits : ss_start.gen[u] # Gyb(gyb_src[u])

C17_WitnessEarlierKept ==
    /\ ss_pc = "exited"
    /\ ss_log # <<>>
    /\ Failed(Len(ss_log))
    /\ ss_log[Len(ss_log)].tool = "gyb"
    /\ \E u \in SyncedUnits : u \in written


\* --------------------------------------------- both drivers: diagnostics

\* The lines of stream that name the command of tool.
LinesNaming(stream, tool) == {j \in DOMAIN stream : stream[j].cmd = tool}

\* The swift-syntax driver itself has written a line naming tool's command
\* to the error stream.
DriverNamedOnStderr(tool) ==
    \E j \in LinesNaming(ss_stderr, tool) : ss_stderr[j].by = "driver"

\* The commands of the swift-syntax driver's phases.
PhaseTools == {"gyb", "rsync", "build", "show-bin-path", "lit", "xctest"}

\* C18 as stated: on every phase failure (code generation, build,
\* configure, helper lookup, either test suite) the driver itself prints a
\* diagnostic that identifies the failing command to the error stream
\* before it exits with status 1.
C18_EveryFailureReportedOnStderr ==
    /\ \A i \in DOMAIN ss_log :
          (Failed(i) /\ ss_log[i].tool \in PhaseTools) =>
              /\ exit_status = 1
              /\ DriverNamedOnStderr(ss_log[i].tool)
    /\ \A i \in DOMAIN bwc_log :
          bwc_log[i].code > 0 =>
              /\ bwc_exit = 1
              /\ LinesNaming(bwc_stderr, bwc_log[i].tool) # {}

\* C18, amended: when a generator, sync, build or helper-lookup command of
\* build-script.py exits non-zero the driver itself prints a diagnostic
\* naming the failing command to the error stream and exits with status 1;
\* when the lit run or the XCTest run exits non-zero it exits with status 1
\* having written nothing to the error stream; when cmake or ninja exits
\* non-zero build-script-helper.py prints the command and an error line on
\* standard output, nothing on the error stream, and exits with status 1,
\* and so it does when one of its path lookups exits non-zero.
C18_FailureReportedExceptSuitesHelperOnStdout ==
    /\ \A i \in DOMAIN ss_log :
          Failed(i) =>
              /\ ss_log[i].tool \in {"gyb", "rsync", "build", "show-bin-path"} =>
                    (exit_status = 1 /\ DriverNamedOnStderr(ss_log[i].tool))
              /\ ss_log[i].tool \in {"lit", "xctest"} =>
                    (exit_status = 1 /\ ss_stderr = <<>>)
    /\ \A i \in DOMAIN bwc_log :
          bwc_log[i].code > 0 =>
              /\ bwc_exit = 1
              /\ bwc_stderr = <<>>
              /\ \E j \in LinesNaming(bwc_stdout, bwc_log[i].tool) :
                    bwc_stdout[j] = ErrorLine(bwc_log[i].tool)
              /\ CmdLine(bwc_log[i].tool) \in {bwc_stdout[j] : j \in DOMAIN bwc_stdout}
    /\ \A i \in DOMAIN bwc_lookups :
          (bwc_lookups[i].code > 0 /\ bwc_lookups[i].tool # UnameCmd) =>
              /\ bwc_exit = 1
              /\ bwc_stderr = <<>>
              /\ bwc_stdout[Len(bwc_stdout)] = ErrorLine(bwc_lookups[i].tool)
              /\ CmdLine(bwc_lookups[i].tool) \in {bwc_stdout[j] : j \in DOMAIN bwc_stdout}

C18_Witness ==
    /\ ss_pc = "exited"
    /\ \E i \in LogOf("show-bin-path") : Failed(i)
    /\ DriverNamedOnStderr("show-bin-path")
    /\ exit_status = 1

C18_WitnessSilentSuite ==
    /\ ss_pc = "exited"
    /\ \E i \in LogOf("xctest") : Failed(i)
    /\ ss_stderr = <<>>
    /\ exit_status = 1

\* A path lookup of build-script-helper.py failed.
C18_WitnessLookupStdout ==
    /\ bwc_pc = "exited"
    /\ bwc_lookups # <<>>
    /\ bwc_lookups[Len(bwc_lookups)].code > 0
    /\ bwc_lookups[Len(bwc_lookups)].tool = "which ninja"
    /\ ~args.verbose
    /\ bwc_stdout = <<CmdLine("which ninja"), ErrorLine("which ninja")>>

\* Under Python 2.7 `uname -p` could not be started and the run went on to
\* its lookups and to a build that succeeded, with nothing reported.
C18_WitnessUnameIgnored ==
    /\ bwc_pc = "returned"
    /\ bwc_exit = 0
    /\ Len(bwc_lookups) = 4
    /\ bwc_lookups[1] = [tool |-> UnameCmd, code |-> NotSpawned]
    /\ bwc_stdout = <<>>

C18_WitnessHelperStdout ==
    /\ bwc_pc = "exited"
    /\ \E i \in BwcLogOf("ninja") : bwc_log[i].code > 0
    /\ ~args.verbose
    /\ bwc_stdout = <<CmdLine("ninja"), ErrorLine("ninja")>>


\* ------------------------------------------------ run_tests: what is reported

LitFailed == \E i \in LogOf("lit") : Failed(i)

XctestFailed == \E i \in LogOf("xctest") : Failed(i)

\* What the pipeline has of the test phase: the value run_tests returned,
\* the driver's exit status and what the driver wrote to the error stream.
ReportedOutcome ==
    [result |-> tests_result, status |-> exit_status, stderr |-> ss_stderr]

\* What a failure of the lit run comes to at the driver.
LitFailureOutcome == [result |-> "False", status |-> 1, stderr |-> <<>>]

\* C19: a failure of the lit run and a failure of the XCTest run yield
\* distinguishable outcomes at the driver: what is reported after the
\* XCTest run failed differs from what is reported after the lit run failed.
C19_SuiteFailuresDistinguishable ==
    /\ LitFailed => ReportedOutcome = LitFailureOutcome
    /\ XctestFailed => ReportedOutcome # LitFailureOutcome


\* ------------------------------------------- generate_gyb_files: no inputs

\* C20: a run that finds no .gyb entry in the source directory invokes
\* neither the generator nor the sync and writes no generated file, and once
\* `rsync --version` has succeeded it goes straight on to the build.
C20_NoInputsNoWork ==
    (ss_pc # "idle" /\ ss_start.src = <<>>) =>
        /\ LogOf("gyb") = {}
        /\ LogOf("rsync") = {}
        /\ NoGeneratedFileWritten
        /\ (\E i \in LogOf("rsync-version") : ss_log[i].code = 0) =>
              (Len(ss_log) >= 2 /\ ss_log[2].tool = "build")

C20_Witness ==
    /\ ss_start.src = <<>>
    /\ ss_pc = "exited"
    /\ exit_status = 0
    /\ [i \in DOMAIN ss_log |-> ss_log[i].tool] = <<"rsync-version", "build">>
    /\ NoGeneratedFileWritten


\* ------------------------------------------------------------------------
\* C21: which products the build is asked for
\* ------------------------------------------------------------------------

\* The child at position i is a build that exited with zero and whose
\* command line named the lit-test-helper product.
HelperBuilt(i) ==
    /\ ss_log[i].tool = "build"
    /\ ss_log[i].code = 0
    /\ "lit-test-helper" \in ss_log[i].products

\* C21: the build's command line names the lit-test-helper product exactly
\* when the run was started with --test, and both the lookup of the helper
\* binary and the lit run come after a build that named the product and
\* exited with zero.
C21_HelperBuiltIffTesting ==
    /\ \A b \in LogOf("build") :
          ("lit-test-helper" \in ss_log[b].products) <=> test
    /\ \A i \in DOMAIN ss_log :
          ss_log[i].tool \in {"show-bin-path", "lit"} =>
              \E b \in 1 .. (i - 1) : HelperBuilt(b)

\* A run with --test that built the helper, looked it up and started lit.
C21_Witness ==
    /\ test
    /\ \E b \in DOMAIN ss_log : HelperBuilt(b)
    /\ LogOf("show-bin-path") # {}
    /\ LogOf("lit") # {}

\* A run without --test whose build asked for SwiftSyntax alone.
C21_WitnessNoTest ==
    /\ ~test
    /\ \E b \in LogOf("build") :
          ss_log[b].code = 0 /\ ss_log[b].products = {"SwiftSyntax"}


\* ------------------------------------------------------------------------
\* C22: the working directory of cmake and ninja
\* ------------------------------------------------------------------------

\* C22: every cmake and every ninja process of build_with_cmake is spawned
\* with a build directory that exists at that moment, whatever the state of
\* the build directory at the start of the run (absent, present without a
\* cache file, present with one) and whatever --reconfigure is. A path
\* that names something other than a directory is none of these states.
C22_BuildDirExistsWhenToolInvoked ==
    bwc_start.dir # "other" =>
        \A i \in DOMAIN bwc_log :
            bwc_log[i].tool \in {"cmake", "ninja"} => bwc_log[i].cwd_exists

\* A run started without a build directory that spawned cmake and ninja.
C22_Witness ==
    /\ bwc_start.dir = "absent"
    /\ BwcLogOf("cmake") # {}
    /\ BwcLogOf("ninja") # {}

\* A run started on a build directory without a cache file.
C22_WitnessNoCache ==
    /\ bwc_start.dir = "directory" /\ bwc_start.cache = NoFile
    /\ BwcLogOf("cmake") # {}
    /\ BwcLogOf("ninja") # {}

\* A run started on a build directory with a cache file that goes straight
\* to ninja without --reconfigure.
C22_WitnessCacheNoForce ==
    /\ bwc_start.dir = "directory" /\ bwc_start.cache # NoFile
    /\ ~args.reconfigure
    /\ BwcLogOf("cmake") = {}
    /\ BwcLogOf("ninja") # {}

\* A run started on a build directory with a cache file and --reconfigure.
C22_WitnessCacheForce ==
    /\ bwc_start.dir = "directory" /\ bwc_start.cache # NoFile
    /\ args.reconfigure
    /\ BwcLogOf("cmake") # {}
    /\ BwcLogOf("ninja") # {}


\* ------------------------------------------------------------------------
\* C23: change_directory restores the working directory
\* ------------------------------------------------------------------------

\* C23: when a change_directory context has exited, by its body completing
\* or by an exception, the working directory is the one the process was in
\* when the context was entered, whatever directory the body left; and the
\* context that exits is the one entered last among those open, so nested
\* contexts restore in reverse order of entry.
C23_CwdRestoredOnExit ==
    \A i \in DOMAIN cd_log :
        /\ cd_log[i].cwd = cd_log[i].entered_in
        /\ \A e \in cd_log[i].open : e < cd_log[i].entry

\* Two nested contexts were left by an exception raised in the inner body:
\* the inner one first, from a directory that is neither its own nor the
\* outer one's, then the outer one.
C23_Witness ==
    \E i, j \in DOMAIN cd_log :
        /\ i < j
        /\ cd_log[i].raised /\ cd_log[j].raised
        /\ cd_log[i].open = {cd_log[j].entry}
        /\ cd_log[i].entered_in # cd_log[j].entered_in
        /\ cd_log[i].body_cwd \notin {cd_log[i].entered_in, cd_log[j].entered_in}

\* A context whose body changed directory and completed.
C23_WitnessNormal ==
    \E i \in DOMAIN cd_log :
        /\ ~cd_log[i].raised
        /\ cd_log[i].body_cwd # cd_log[i].entered_in

=============================================================================
